---- MODULE Spec2Model ----
(***************************************************************************)
(* Model of the Gravitino virtual filesystem client                        *)
(* (clients/client-python/gravitino/filesystem/gvfs.py): the path          *)
(* resolution of GravitinoVirtualFileSystem._get_fileset_context, its      *)
(* fileset cache and the reader/writer lock that guards the cache.         *)
(*                                                                         *)
(* Strings are sequences of tokens; "/" is always a token of its own.      *)
(***************************************************************************)
EXTENDS Integers, Sequences, FiniteSets, TLC

\* ---------------------------------------------------------------- bounds
NumThreads == 2

\* the number of calls of _get_fileset_context the threads make in total
MaxCalls == 3

\* the number of chunks a file of the backend holds
MaxChunks == 2

\* the longest path, in tokens after its scheme, that is given to the parser
MaxPathLen == 8

Threads == 1..NumThreads

\* Python's None
None == [kind |-> "None"]

\* ------------------------------------------------------- string helpers
\* str.startswith
StartsWith(s, p) ==
    /\ Len(p) <= Len(s)
    /\ SubSeq(s, 1, Len(p)) = p

\* str.find: the least 1-based index at which p occurs in s, 0 when absent
FindFirst(s, p) ==
    LET hits == {i \in 1..(Len(s) - Len(p) + 1) : SubSeq(s, i, i + Len(p) - 1) = p}
    IN IF hits = {} THEN 0 ELSE CHOOSE i \in hits : \A j \in hits : i <= j

\* a replacement of the last occurrence instead of the first
ReplaceLast(s, old, new) ==
    LET hits == {i \in 1..(Len(s) - Len(old) + 1) : SubSeq(s, i, i + Len(old) - 1) = old}
    IN IF hits = {} THEN s
       ELSE LET i == CHOOSE k \in hits : \A j \in hits : j <= k
            IN SubSeq(s, 1, i - 1) \o new \o SubSeq(s, i + Len(old), Len(s))

\* str.replace(old, new, 1)
ReplaceFirst(s, old, new) ==
    LET i == FindFirst(s, old)
    IN IF i = 0 THEN s
       ELSE SubSeq(s, 1, i - 1) \o new \o SubSeq(s, i + Len(old), Len(s))

\* the pieces of s between "/" tokens, as str.split("/") gives them
RECURSIVE SplitSlash(_)
SplitSlash(s) ==
    LET i == FindFirst(s, <<"/">>)
    IN IF i = 0 THEN <<s>>
       ELSE <<SubSeq(s, 1, i - 1)>> \o SplitSlash(SubSeq(s, i + 1, Len(s)))

\* ------------------------------------------------------ program constants
\* GravitinoVirtualFileSystem._gvfs_prefix
GvfsPrefix == <<"gvfs:", "/", "/", "fileset">>

\* StorageType.HDFS.value
HDFS == <<"hdfs:", "/", "/">>

\* the first token of a path that starts with a scheme
Schemes == {"hdfs:", "gvfs:", "file:"}

\* cache_expired_time (seconds) and cache_size as the unit test configures them
CacheExpiredTime == 1
CacheSize == 1

\* self.metalake
Metalake == <<"metalake">>

\* ------------------------------------------------------------ identifiers
\* an exception of the given Python type
Raise(type) == [kind |-> "err", type |-> type]

\* NameIdentifier.of_fileset(metalake, catalog, schema, fileset)
OfFileset(m, c, s, f) == [kind |-> "ident", namespace |-> <<m, c, s>>, name |-> f]

\* a pattern without the optional gvfs://fileset in front
PatternSegmentsUnprefixed(path) ==
    IF Len(path) >= 1 /\ path[1] = "/"
    THEN SplitSlash(SubSeq(path, 2, Len(path)))
    ELSE <<>>

\* the segments the pattern
\*   ^(?:gvfs://fileset)?/([^/]+)/([^/]+)/([^/]+)(?>/[^/]+)*/?$
\* sees after the optional prefix and the first "/"
PatternSegments(path) ==
    LET rest == IF StartsWith(path, GvfsPrefix)
                THEN SubSeq(path, Len(GvfsPrefix) + 1, Len(path))
                ELSE path
    IN IF Len(rest) >= 1 /\ rest[1] = "/"
       THEN SplitSlash(SubSeq(rest, 2, Len(rest)))
       ELSE <<>>

\* a pattern whose groups are [^/]* instead of [^/]+
PatternMatchesEmptySegments(path) ==
    Len(PatternSegments(path)) >= 3

PatternMatches(path) ==
    LET segs == PatternSegments(path)
        n == Len(segs)
    IN /\ n >= 3
       /\ \A i \in 1..(n - 1) : segs[i] # <<>>
       /\ (segs[n] # <<>> \/ n >= 4)

ExtractIdentifier(path) ==
    IF Len(path) = 0 THEN Raise("ValueError")
    ELSE IF PatternMatches(path)
    THEN LET segs == PatternSegments(path)
         IN OfFileset(Metalake, segs[1], segs[2], segs[3])
    ELSE Raise("ValueError")

\* the path argument of _extract_identifier when it is a string
Str(s) == [kind |-> "str", value |-> s]

\* _extract_identifier(path) for an argument that may be None
ExtractIdentifierOf(path) ==
    IF path = None THEN Raise("ValueError") ELSE ExtractIdentifier(path.value)

\* _get_virtual_location
GetVirtualLocation(identifier, with_scheme) ==
    (IF with_scheme THEN GvfsPrefix ELSE <<>>)
        \o <<"/">> \o identifier.namespace[2]
        \o <<"/">> \o identifier.namespace[3]
        \o <<"/">> \o identifier.name

\* ------------------------------------------------- external collaborators
\* the storage locations the catalog may hand out: two HDFS directories and
\* one location of a scheme the client does not support
StorageLocations ==
    { HDFS \o <<"h", "/", "d1">>,
      HDFS \o <<"h", "/", "d2">>,
      <<"file:", "/", "d3">> }

\* what fs.get_file_info reports for the storage location, or that it raised
ProbeOutcomes == {"Directory", "File", "NotFound", "raise"}

\* the virtual paths the callers pass in
VirtualPaths ==
    { <<"/", "c", "/", "s", "/", "A">>,
      <<"/", "c", "/", "s", "/", "A", "/", "x">>,
      <<"/", "c", "/", "s", "/", "B">>,
      <<"/", "c", "/", "s">> }

\* the calls and the catalog answers of the fair specification: one path per
\* fileset, one supported and one unsupported location
FairPaths == {p \in VirtualPaths : Len(p) = 6}
FairLocations == {l \in StorageLocations : l[Len(l)] # "d2"}

\* the identifiers those paths name: the keys the cache can hold
Identifiers ==
    {ExtractIdentifier(p) : p \in {q \in VirtualPaths : PatternMatches(q)}}

\* Fileset as returned by load_fileset
Fileset(identifier, location) ==
    [kind |-> "fileset", ident |-> identifier, storage_location |-> location]

\* HadoopFileSystem.from_uri(storage_location)
FromUri(location) == [kind |-> "fs", uri |-> location]

\* a tuple stored before its filesystem is there
CacheValuePartial(fileset, filesystem) ==
    [kind |-> "entry", fileset |-> fileset, fs |-> None]

\* the tuple (fileset, fs) stored in self.cache
CacheValue(fileset, filesystem) ==
    [kind |-> "entry", fileset |-> fileset, fs |-> filesystem]

\* FilesetContext(identifier, fileset, fs, actual_path)
FilesetContext(identifier, fileset, filesystem, actual_path) ==
    [kind |-> "ok", name_identifier |-> identifier, fileset |-> fileset,
     fs |-> filesystem, actual_path |-> actual_path]

\* the error fs.get_file_info raises when the backend fails or times out
GetFileInfoError == Raise("OSError")

\* except Exception as e: raise Exception("...".format(..., str(e))): the
\* error that leaves the handler is a plain Exception, whatever e was
Wrapped(e) ==
    Raise("Exception")

\* _check_mount_single_file, given what get_file_info reported
CheckMountSingleFile(info) ==
    IF info = "raise" THEN Wrapped(GetFileInfoError)
    ELSE [kind |-> "bool", value |-> (info = "File")]

\* a translation that accepts any path of a fileset that mounts a single file
GetActualPathLenient(identifier, fileset, info, virtual_path) ==
    LET with_scheme == StartsWith(virtual_path, GvfsPrefix)
        virtual_location == GetVirtualLocation(identifier, with_scheme)
        storage_location == fileset.storage_location
        single == CheckMountSingleFile(info)
    IN IF single.kind = "err" THEN Raise("Exception")
       ELSE IF single.value
       THEN [kind |-> "path", path |-> storage_location]
       ELSE [kind |-> "path",
             path |-> ReplaceFirst(virtual_path, virtual_location, storage_location)]

\* _get_actual_path_by_ident, given what the probe of the storage location
\* reported: the actual path, or the exception it raises
GetActualPathByIdent(identifier, fileset, info, virtual_path) ==
    LET with_scheme == StartsWith(virtual_path, GvfsPrefix)
        virtual_location == GetVirtualLocation(identifier, with_scheme)
        storage_location == fileset.storage_location
        single == CheckMountSingleFile(info)
    IN IF single.kind = "err" THEN Raise("Exception")
       ELSE IF single.value
       THEN IF virtual_path # virtual_location
            THEN Raise("Exception")
            ELSE [kind |-> "path", path |-> storage_location]
       ELSE [kind |-> "path",
             path |-> ReplaceFirst(virtual_path, virtual_location, storage_location)]

\* utils.infer_storage_options: a path that has no "scheme://" in front is
\* taken as it is; of any other the scheme and the host are dropped
InferStoragePath(path) ==
    IF Len(path) >= 3 /\ path[1] \in Schemes /\ path[2] = "/" /\ path[3] = "/"
    THEN LET rest == SubSeq(path, 4, Len(path))
             i == FindFirst(rest, <<"/">>)
         IN IF i = 0 THEN <<>> ELSE SubSeq(rest, i, Len(rest))
    ELSE path

\* _strip_protocol
StripProtocol(path) ==
    LET stripped == InferStoragePath(path)
    IN IF StartsWith(stripped, <<"/", "/">>) THEN Tail(stripped) ELSE stripped

\* str.replace(old, new): every occurrence, from left to right (old is never
\* empty here: every storage location has a path)
RECURSIVE ReplaceAll(_, _, _)
ReplaceAll(s, old, new) ==
    LET i == FindFirst(s, old)
    IN IF i = 0 \/ old = <<>> THEN s
       ELSE SubSeq(s, 1, i - 1) \o new
                \o ReplaceAll(SubSeq(s, i + Len(old), Len(s)), old, new)

\* pyarrow.fs.FileInfo, as far as the filesystem reads it (size and mtime are
\* passed through untouched)
FileInfo(path, type) == [kind |-> "FileInfo", path |-> path, type |-> type]

\* FileType as the info dictionary names it
KindOf(type) ==
    CASE type = "Directory" -> "directory"
      [] type = "File" -> "file"
      [] OTHER -> "other"

\* a conversion that translates whatever path it is given
ConvertUnchecked(info, storage_location, virtual_location) ==
    LET actual_prefix == StripProtocol(storage_location)
        virtual_prefix == StripProtocol(virtual_location)
    IN IF info.type = "NotFound" THEN Raise("FileNotFoundError")
       ELSE [kind |-> "info",
             name |-> GvfsPrefix \o ReplaceAll(info.path, actual_prefix, virtual_prefix),
             type |-> KindOf(info.type)]

\* _convert_file_info_path_prefix: the info dictionary, or the exception raised
ConvertFileInfoPathPrefix(info, storage_location, virtual_location) ==
    LET actual_prefix == StripProtocol(storage_location)
        virtual_prefix == StripProtocol(virtual_location)
    IN IF ~StartsWith(info.path, actual_prefix) THEN Raise("ValueError")
       ELSE IF info.type = "NotFound" THEN Raise("FileNotFoundError")
       ELSE [kind |-> "info",
             name |-> GvfsPrefix \o ReplaceAll(info.path, actual_prefix, virtual_prefix),
             type |-> KindOf(info.type)]

\* ------------------------------------------------------------------ state
VARIABLES
    cache,        \* self.cache: identifier -> (fileset, fs), None when absent
    readers,      \* threads holding self.cache_lock in reader mode
    writers,      \* threads holding self.cache_lock in writer mode
    queue,        \* threads waiting for self.cache_lock, in arrival order
    pc,           \* where each thread is inside _get_fileset_context
    virtual_path, \* the argument of each thread's call
    identifier,   \* local: the parsed identifier
    cache_value,  \* local: what self.cache.get(identifier) returned
    fileset,      \* local: the fileset loaded from the server
    fs,           \* local: the filesystem built for it
    result,       \* the context the call returns or the exception it raises
    fetched,      \* this call has called _load_fileset_from_server
    built,        \* this call has called HadoopFileSystem.from_uri
    inserted,     \* this call has stored an entry in self.cache
    age,          \* seconds since the entry of an identifier was stored
    stale_hit,    \* this call took an entry that was older than the expiry time
    calls,        \* the number of calls made so far
    op,           \* the operation of the filesystem the client is inside, None when outside
    backend,      \* the storage behind the filesystem handles: path -> file type
    data,         \* the storage behind the filesystem handles: path -> content of the file
    out,          \* what the operation returned or raised
    trace         \* the calls the operation has made to the backend, in order

vars == <<cache, readers, writers, queue, pc, virtual_path, identifier,
          cache_value, fileset, fs, result, fetched, built, inserted,
          age, stale_hit, calls, op, backend, data, out, trace>>

locks == <<readers, writers, queue>>
locals == <<virtual_path, identifier, cache_value, fileset, fs>>
history == <<fetched, built, inserted, stale_hit, calls>>
facade == <<op, backend, data, out, trace>>

\* GravitinoVirtualFileSystem.__init__: empty cache, free lock
NewFileSystem ==
    /\ cache = [i \in Identifiers |-> None]
    /\ readers = {}
    /\ writers = {}
    /\ queue = <<>>
    /\ pc = [t \in Threads |-> "idle"]
    /\ virtual_path = [t \in Threads |-> <<>>]
    /\ identifier = [t \in Threads |-> None]
    /\ cache_value = [t \in Threads |-> None]
    /\ fileset = [t \in Threads |-> None]
    /\ fs = [t \in Threads |-> None]
    /\ result = [t \in Threads |-> None]
    /\ fetched = [t \in Threads |-> FALSE]
    /\ built = [t \in Threads |-> FALSE]
    /\ inserted = [t \in Threads |-> FALSE]
    /\ age = [i \in Identifiers |-> 0]
    /\ stale_hit = [t \in Threads |-> FALSE]
    /\ calls = 0

\* the threads call _get_fileset_context directly, outside any operation; the
\* backend is left open: a probe of it may answer anything at any time
Init ==
    /\ NewFileSystem
    /\ op = None
    /\ backend = None
    /\ data = None
    /\ out = None
    /\ trace = <<>>

\* ------------------------------------------------- rwlock.RWLockFair
\* self.cache_lock: any number of readers or one writer; a request waits in
\* queue from the moment it is made and requests are served in arrival order,
\* so a reader does not overtake a writer that waits
\* a reader lock that does not wait for the writer
CanAcquireReadAnytime(t) ==
    /\ queue # <<>>
    /\ Head(queue) = t

\* a reader gets the lock when no writer holds it and no earlier request waits
CanAcquireRead(t) ==
    /\ writers = {}
    /\ queue # <<>>
    /\ Head(queue) = t

\* a writer lock that excludes readers but not other writers
CanAcquireWriteShared(t) ==
    /\ readers = {}
    /\ queue # <<>>
    /\ Head(queue) = t

\* a writer gets the lock when nobody holds it and no earlier request waits
CanAcquireWrite(t) ==
    /\ writers = {}
    /\ readers = {}
    /\ queue # <<>>
    /\ Head(queue) = t

\* an exit from the first lookup that keeps the reader lock
ReleaseReadForgotten(t) == readers

\* read_lock.release() in the finally clause
ReleaseRead(t) == readers \ {t}

\* an exit that keeps the writer lock
ReleaseWriteForgotten(t) == writers

\* write_lock.release() in the finally clause
ReleaseWrite(t) == writers \ {t}

\* the locals cache_value, fileset and fs are gone when the call returns or raises
Gone(local, t) == [local EXCEPT ![t] = None]

\* -------------------------------------------- _get_fileset_context, by step
\* the call starts: _extract_identifier, then the request for the reader lock
Call(t, path) ==
    /\ pc[t] = "idle"
    /\ calls < MaxCalls
    /\ calls' = calls + 1
    /\ virtual_path' = [virtual_path EXCEPT ![t] = path]
    /\ LET ident == ExtractIdentifier(path)
       IN IF ident.kind = "err"
          THEN /\ result' = [result EXCEPT ![t] = ident]
               /\ pc' = [pc EXCEPT ![t] = "done"]
               /\ UNCHANGED <<identifier, queue>>
          ELSE /\ identifier' = [identifier EXCEPT ![t] = ident]
               /\ pc' = [pc EXCEPT ![t] = "read_lock"]
               /\ queue' = Append(queue, t)
               /\ UNCHANGED result
    /\ UNCHANGED <<cache, readers, writers, cache_value, fileset, fs,
                   fetched, built, inserted, age, stale_hit>>
    /\ UNCHANGED facade

\* read_lock.acquire()
ReadAcquire(t) ==
    /\ pc[t] = "read_lock"
    /\ CanAcquireRead(t)
    /\ readers' = readers \cup {t}
    /\ queue' = Tail(queue)
    /\ pc' = [pc EXCEPT ![t] = "read_get"]
    /\ UNCHANGED <<cache, writers, locals, result, history, age>>
    /\ UNCHANGED facade

\* cache_value = self.cache.get(identifier), under the reader lock; on a miss
\* the finally clause releases the reader lock and the thread goes on to
\* request the writer lock
ReadGet(t) ==
    /\ pc[t] = "read_get"
    /\ cache_value' = [cache_value EXCEPT ![t] = cache[identifier[t]]]
    /\ IF cache[identifier[t]] # None
       THEN /\ pc' = [pc EXCEPT ![t] = "read_probe"]
            /\ stale_hit' = [stale_hit EXCEPT ![t] =
                                age[identifier[t]] >= CacheExpiredTime]
            /\ UNCHANGED <<readers, queue>>
       ELSE /\ readers' = ReleaseRead(t)
            /\ pc' = [pc EXCEPT ![t] = "write_lock"]
            /\ queue' = Append(queue, t)
            /\ UNCHANGED stale_hit
    /\ UNCHANGED <<cache, writers, virtual_path, identifier, fileset, fs, result,
                   fetched, built, inserted, age, calls>>
    /\ UNCHANGED facade

\* the outcome of a hit: _get_actual_path_by_ident on the cached value, whose
\* _check_mount_single_file asks the backend about the storage location
HitOutcome(t, info) ==
    LET actual == GetActualPathByIdent(identifier[t], cache_value[t].fileset,
                                       info, virtual_path[t])
    IN IF actual.kind = "err" THEN actual
       ELSE FilesetContext(identifier[t], cache_value[t].fileset,
                           cache_value[t].fs, actual.path)

\* hit under the reader lock: the backend answers the probe, the call returns
\* or raises and the finally clause releases the reader lock
ReadProbe(t, info) ==
    /\ pc[t] = "read_probe"
    /\ result' = [result EXCEPT ![t] = HitOutcome(t, info)]
    /\ readers' = ReleaseRead(t)
    /\ pc' = [pc EXCEPT ![t] = "done"]
    /\ cache_value' = Gone(cache_value, t)
    /\ fileset' = Gone(fileset, t)
    /\ fs' = Gone(fs, t)
    /\ UNCHANGED <<cache, writers, queue, virtual_path, identifier, history, age>>
    /\ UNCHANGED facade

\* write_lock.acquire()
WriteAcquire(t) ==
    /\ pc[t] = "write_lock"
    /\ CanAcquireWrite(t)
    /\ writers' = writers \cup {t}
    /\ queue' = Tail(queue)
    /\ pc' = [pc EXCEPT ![t] = "write_get"]
    /\ UNCHANGED <<cache, readers, locals, result, history, age>>
    /\ UNCHANGED facade

\* a second look that does not consult the cache
RecheckSkipped(t) == None

\* what the second look at the cache, under the writer lock, finds
Recheck(t) == cache[identifier[t]]

\* cache_value = self.cache.get(identifier), under the writer lock
WriteGet(t) ==
    /\ pc[t] = "write_get"
    /\ cache_value' = [cache_value EXCEPT ![t] = Recheck(t)]
    /\ pc' = [pc EXCEPT ![t] =
                 IF Recheck(t) # None THEN "write_probe" ELSE "fetch"]
    /\ stale_hit' = [stale_hit EXCEPT ![t] =
                        Recheck(t) # None /\ age[identifier[t]] >= CacheExpiredTime]
    /\ UNCHANGED <<cache, locks, virtual_path, identifier, fileset, fs, result,
                   fetched, built, inserted, age, calls>>
    /\ UNCHANGED facade

\* hit under the writer lock: the backend answers the probe, the call returns
\* or raises and the finally clause releases the writer lock
WriteProbe(t, info) ==
    /\ pc[t] = "write_probe"
    /\ result' = [result EXCEPT ![t] = HitOutcome(t, info)]
    /\ writers' = ReleaseWrite(t)
    /\ pc' = [pc EXCEPT ![t] = "done"]
    /\ cache_value' = Gone(cache_value, t)
    /\ fileset' = Gone(fileset, t)
    /\ fs' = Gone(fs, t)
    /\ UNCHANGED <<cache, readers, queue, virtual_path, identifier, history, age>>
    /\ UNCHANGED facade

\* what _load_fileset_from_server can answer for an identifier: the fileset
\* with whatever storage location the catalog holds at that moment, or an error
CatalogAnswers(ident, locations) ==
    {Fileset(ident, loc) : loc \in locations} \cup {Raise("CatalogError")}

\* what HadoopFileSystem.from_uri can answer
BuildAnswers(location) == {FromUri(location), Raise("BuildError")}

\* a scheme check that lets every storage location through
SupportedAlways(storage_location) ==
    TRUE

\* fileset.storage_location().startswith(StorageType.HDFS.value)
Supported(storage_location) ==
    StartsWith(storage_location, HDFS)

\* the ValueError raised for a storage location of another scheme: its message
\* is a format string with the values formatted into it, the identifier alone
UnsupportedStorage(ident) ==
    [kind |-> "err", type |-> "ValueError",
     format |-> "Storage under the fileset: `{}` doesn't support now.",
     arguments |-> <<[kind |-> "identifier", value |-> ident]>>]

\* a fetch that asks the catalog again when the catalog raised
FetchRetrying(t, answer) ==
    /\ pc[t] = "fetch"
    /\ fetched' = [fetched EXCEPT ![t] = TRUE]
    /\ IF answer.kind = "err"
       THEN /\ result' = [result EXCEPT ![t] = answer]
            /\ UNCHANGED <<writers, pc, fileset>>
       ELSE IF Supported(answer.storage_location)
       THEN /\ fileset' = [fileset EXCEPT ![t] = answer]
            /\ pc' = [pc EXCEPT ![t] = "build"]
            /\ result' = [result EXCEPT ![t] = None]
            /\ UNCHANGED writers
       ELSE /\ result' = [result EXCEPT ![t] = UnsupportedStorage(identifier[t])]
            /\ writers' = ReleaseWrite(t)
            /\ pc' = [pc EXCEPT ![t] = "done"]
            /\ fileset' = Gone(fileset, t)
    /\ UNCHANGED <<cache, readers, queue, virtual_path, identifier, cache_value,
                   fs, built, inserted, age, stale_hit, calls>>
    /\ UNCHANGED facade

\* fileset = self._load_fileset_from_server(identifier), then the check of the
\* storage location's scheme; when either raises, the finally clause releases
\* the writer lock
Fetch(t, answer) ==
    /\ pc[t] = "fetch"
    /\ fetched' = [fetched EXCEPT ![t] = TRUE]
    /\ IF answer.kind = "err"
       THEN /\ result' = [result EXCEPT ![t] = answer]
            /\ writers' = ReleaseWrite(t)
            /\ pc' = [pc EXCEPT ![t] = "done"]
            /\ fileset' = Gone(fileset, t)
       ELSE IF Supported(answer.storage_location)
       THEN /\ fileset' = [fileset EXCEPT ![t] = answer]
            /\ pc' = [pc EXCEPT ![t] = "build"]
            /\ UNCHANGED <<result, writers>>
       ELSE /\ result' = [result EXCEPT ![t] = UnsupportedStorage(identifier[t])]
            /\ writers' = ReleaseWrite(t)
            /\ pc' = [pc EXCEPT ![t] = "done"]
            /\ fileset' = Gone(fileset, t)
    /\ UNCHANGED <<cache, readers, queue, virtual_path, identifier, cache_value,
                   fs, built, inserted, age, stale_hit, calls>>
    /\ UNCHANGED facade

\* a construction that leaves an entry without filesystem behind when it fails
BuildCachingFailure(t, answer) ==
    /\ pc[t] = "build"
    /\ built' = [built EXCEPT ![t] = TRUE]
    /\ IF answer.kind = "err"
       THEN /\ result' = [result EXCEPT ![t] = answer]
            /\ cache' = [cache EXCEPT ![identifier[t]] =
                             [kind |-> "entry", fileset |-> fileset[t], fs |-> None]]
            /\ writers' = writers \ {t}
            /\ pc' = [pc EXCEPT ![t] = "done"]
            /\ fileset' = [fileset EXCEPT ![t] = None]
            /\ UNCHANGED fs
       ELSE /\ fs' = [fs EXCEPT ![t] = answer]
            /\ pc' = [pc EXCEPT ![t] = "translate"]
            /\ UNCHANGED <<result, writers, fileset, cache>>
    /\ UNCHANGED <<readers, queue, virtual_path, identifier, cache_value,
                   fetched, inserted, age, stale_hit, calls>>
    /\ UNCHANGED facade

\* fs = HadoopFileSystem.from_uri(storage_location)
Build(t, answer) ==
    /\ pc[t] = "build"
    /\ built' = [built EXCEPT ![t] = TRUE]
    /\ IF answer.kind = "err"
       THEN /\ result' = [result EXCEPT ![t] = answer]
            /\ writers' = ReleaseWrite(t)
            /\ pc' = [pc EXCEPT ![t] = "done"]
            /\ fileset' = Gone(fileset, t)
            /\ UNCHANGED fs
       ELSE /\ fs' = [fs EXCEPT ![t] = answer]
            /\ pc' = [pc EXCEPT ![t] = "translate"]
            /\ UNCHANGED <<result, writers, fileset>>
    /\ UNCHANGED <<cache, readers, queue, virtual_path, identifier, cache_value,
                   fetched, inserted, age, stale_hit, calls>>
    /\ UNCHANGED facade

\* a cache of one entry: storing under a key drops every other key
StoreEvicting(c, ident, fileset_, fs_) ==
    [i \in DOMAIN c |-> IF i = ident THEN CacheValue(fileset_, fs_) ELSE None]

\* self.cache[identifier] = (fileset, fs)
Store(c, ident, fileset_, fs_) ==
    [c EXCEPT ![ident] = CacheValue(fileset_, fs_)]

\* a load that stores the entry before it translates the path
TranslateStoringFirst(t, info) ==
    /\ pc[t] = "translate"
    /\ cache' = Store(cache, identifier[t], fileset[t], fs[t])
    /\ age' = [age EXCEPT ![identifier[t]] = 0]
    /\ inserted' = [inserted EXCEPT ![t] = TRUE]
    /\ LET actual == GetActualPathByIdent(identifier[t], fileset[t], info,
                                          virtual_path[t])
       IN IF actual.kind = "err"
          THEN result' = [result EXCEPT ![t] = actual]
          ELSE result' = [result EXCEPT ![t] =
                             FilesetContext(identifier[t], fileset[t], fs[t],
                                            actual.path)]
    /\ writers' = ReleaseWrite(t)
    /\ pc' = [pc EXCEPT ![t] = "done"]
    /\ fileset' = Gone(fileset, t)
    /\ fs' = Gone(fs, t)
    /\ UNCHANGED <<readers, queue, virtual_path, identifier, cache_value,
                   fetched, built, stale_hit, calls>>
    /\ UNCHANGED facade

\* actual_path = self._get_actual_path_by_ident(identifier, fileset, fs,
\* virtual_path): the backend answers the probe; then the entry is stored and
\* the context returned, unless the translation raised; the finally clause
\* releases the writer lock
Translate(t, info) ==
    /\ pc[t] = "translate"
    /\ LET actual == GetActualPathByIdent(identifier[t], fileset[t], info,
                                          virtual_path[t])
       IN IF actual.kind = "err"
          THEN /\ result' = [result EXCEPT ![t] = actual]
               /\ UNCHANGED <<cache, inserted, age>>
          ELSE /\ cache' = Store(cache, identifier[t], fileset[t], fs[t])
               /\ age' = [age EXCEPT ![identifier[t]] = 0]
               /\ inserted' = [inserted EXCEPT ![t] = TRUE]
               /\ result' = [result EXCEPT ![t] =
                                FilesetContext(identifier[t], fileset[t], fs[t],
                                               actual.path)]
    /\ writers' = ReleaseWrite(t)
    /\ pc' = [pc EXCEPT ![t] = "done"]
    /\ fileset' = Gone(fileset, t)
    /\ fs' = Gone(fs, t)
    /\ UNCHANGED <<readers, queue, virtual_path, identifier, cache_value,
                   fetched, built, stale_hit, calls>>
    /\ UNCHANGED facade

\* the caller takes the result; the thread is free for its next call
Taken(t) ==
    /\ pc[t] = "done"
    /\ pc' = [pc EXCEPT ![t] = "idle"]
    /\ virtual_path' = [virtual_path EXCEPT ![t] = <<>>]
    /\ identifier' = [identifier EXCEPT ![t] = None]
    /\ result' = [result EXCEPT ![t] = None]
    /\ fetched' = [fetched EXCEPT ![t] = FALSE]
    /\ built' = [built EXCEPT ![t] = FALSE]
    /\ inserted' = [inserted EXCEPT ![t] = FALSE]
    /\ stale_hit' = [stale_hit EXCEPT ![t] = FALSE]
    /\ UNCHANGED <<cache, locks, cache_value, fileset, fs, age, calls>>

\* a direct call of _get_fileset_context has returned or raised
Return(t) ==
    /\ Taken(t)
    /\ UNCHANGED facade

\* one second passes: every stored entry grows older (the age is recorded up
\* to the expiry time, from which on the entry counts as expired)
Tick ==
    /\ \E i \in Identifiers : cache[i] # None /\ age[i] < CacheExpiredTime
    /\ age' = [i \in Identifiers |->
                 IF cache[i] # None /\ age[i] < CacheExpiredTime
                 THEN age[i] + 1 ELSE age[i]]
    /\ UNCHANGED <<cache, locks, pc, locals, result, history>>
    /\ UNCHANGED facade

\* ------------------------------------------- the two path translations
\* the virtual location gvfs://fileset/c/s/A or /c/s/A
LocationOfA(with_scheme) ==
    (IF with_scheme THEN GvfsPrefix ELSE <<>>) \o <<"/", "c", "/", "s", "/", "A">>

\* what may follow the virtual location in a virtual path: nothing, a slash, a
\* name, a name that repeats the storage directory or the virtual location
RelativePaths ==
    { <<>>, <<"/">>, <<"/", "x">>, <<"/", "d1">>, <<"/", "d1", "/", "x">>,
      <<"/", "c", "/", "s", "/", "A">> }

\* the virtual paths handed to the translation, with and without the scheme
TranslatedPaths ==
    {LocationOfA(with_scheme) \o r : with_scheme \in BOOLEAN, r \in RelativePaths}

\* the storage locations a cached fileset can have
HdfsLocations == {l \in StorageLocations : StartsWith(l, HDFS)}

FileTypes == {"Directory", "File", "NotFound"}

\* paths a backend may report that are not the path it was asked for: the
\* storage directories, a child, a sibling whose name begins like the
\* directory's, and a path elsewhere
ReportedPaths ==
    { <<"/", "d1">>, <<"/", "d1", "/", "x">>, <<"/", "d2", "/", "x">>,
      <<"/", "d1", "_bak", "/", "x">>, <<"/", "other", "/", "d1">> }

\* _get_actual_path_by_ident applied to a virtual path, for a fileset at
\* location whose storage location the backend reports as info
ToActual(path, location, info) ==
    /\ op = None
    /\ LET ident == ExtractIdentifier(path)
           fileset_ == Fileset(ident, location)
       IN op' = [kind |-> "op", name |-> "translate", path |-> path,
                 name_identifier |-> ident, fileset |-> fileset_, probe |-> info,
                 actual |-> GetActualPathByIdent(ident, fileset_, info, path),
                 entry |-> None]
    /\ out' = None
    /\ UNCHANGED <<cache, locks, pc, locals, result, history, age, backend, data, trace>>

\* the FileInfo records the conversion may be handed after ToActual: the one
\* of the actual path, which get_file_info reports under the path it was
\* asked for, or one of another path
Entries ==
    IF op = None THEN {}
    ELSE {FileInfo(q, type) :
            q \in ReportedPaths \cup
                  (IF op.actual.kind = "path"
                   THEN {StripProtocol(op.actual.path)} ELSE {}),
            type \in FileTypes}

\* _convert_file_info_path_prefix applied to a FileInfo of the backend, as ls
\* and info call it
ToVirtual(entry) ==
    /\ op # None
    /\ op.name = "translate"
    /\ op.entry = None
    /\ op' = [op EXCEPT !.entry = entry]
    /\ out' = ConvertFileInfoPathPrefix(entry, op.fileset.storage_location,
                                         GetVirtualLocation(op.name_identifier, TRUE))
    /\ UNCHANGED <<cache, locks, pc, locals, result, history, age, backend, data, trace>>

\* ------------------------------------------------------------ the backend
\* the thread that calls the operations of the filesystem
Client == 1

\* str.rstrip("/")
RECURSIVE RStripSlash(_)
RStripSlash(s) ==
    IF s # <<>> /\ s[Len(s)] = "/" THEN RStripSlash(SubSeq(s, 1, Len(s) - 1)) ELSE s

\* a copy that writes to the destination name itself
DestinationName(dst) == dst

\* the temporary name cp_file writes to: dst.tmp.<token_hex>
TmpName(dst) ==
    dst \o <<".tmp.", "token">>

\* the paths of the backend that can hold something, in the order a listing
\* reports them: the storage directory of hdfs://h/d1 and what lies in it
BackendPathSeq ==
    << <<"/", "d1">>,
       <<"/", "d1", "/", "d1">>,
       <<"/", "d1", "/", "d1", "/", "z">>,
       <<"/", "d1", "/", "x">>,
       TmpName(<<"/", "d1", "/", "x">>),
       <<"/", "d1", "/", "y">>,
       TmpName(<<"/", "d1", "/", "y">>) >>

BackendPaths == {BackendPathSeq[i] : i \in DOMAIN BackendPathSeq}

\* q lies directly in the directory dir
ChildOf(q, dir) ==
    /\ StartsWith(q, dir \o <<"/">>)
    /\ Len(q) > Len(dir) + 1
    /\ FindFirst(SubSeq(q, Len(dir) + 2, Len(q)), <<"/">>) = 0

\* the backends an operation can meet: the storage location is a file, a
\* directory with or without content, or absent; nothing lies below a path
\* that is no directory
InitialBackends ==
    {b \in [BackendPaths -> FileTypes] :
        /\ b[<<"/", "d1", "/", "y">>] # "Directory"
        /\ b[TmpName(<<"/", "d1", "/", "x">>)] = "NotFound"
        /\ b[TmpName(<<"/", "d1", "/", "y">>)] = "NotFound"
        /\ b[<<"/", "d1", "/", "d1">>] # "Directory"
        /\ b[<<"/", "d1", "/", "d1", "/", "z">>] = "NotFound"
        /\ b[<<"/", "d1">>] # "Directory"
              => \A q \in BackendPaths : q # <<"/", "d1">> => b[q] = "NotFound"}

\* the content of the file first stored under path: MaxChunks chunks that no
\* other file holds
Content(path) == [i \in 1..MaxChunks |-> <<path, i>>]

\* the content of the files of backend b before any operation; what is no
\* file has no content
InitialData(b) ==
    [q \in BackendPaths |-> IF b[q] = "File" THEN Content(q) ELSE <<>>]

\* the type the backend holds under a path (it ignores a trailing slash)
TypeAt(path) ==
    LET q == RStripSlash(path)
    IN IF q \in BackendPaths THEN backend[q] ELSE "NotFound"

\* fs.get_file_info([path]): the FileInfo comes back under the path asked for
GetFileInfo(path) == FileInfo(path, TypeAt(path))

\* what _check_mount_single_file can get from fs.get_file_info for the storage
\* location of a fileset: its type, or an error of the backend
Probe(fileset_) ==
    {TypeAt(StripProtocol(fileset_.storage_location)), "raise"}

\* the entries of the directory dir, in listing order
ListingOf(dir) ==
    LET child(q) == ChildOf(q, RStripSlash(dir)) /\ backend[q] # "NotFound"
        info(q) == FileInfo(q, backend[q])
    IN [kind |-> "listing",
        entries |-> [i \in DOMAIN SelectSeq(BackendPathSeq, child) |->
                        info(SelectSeq(BackendPathSeq, child)[i])]]

\* fs.get_file_info(FileSelector(path)): the entries of a directory; for a
\* path that is a file the backend either refuses or, as HDFS does, reports
\* the file itself; a missing path is an error
Listings(path) ==
    CASE TypeAt(path) = "Directory" -> {ListingOf(path)}
      [] TypeAt(path) = "File" ->
            {Raise("OSError"),
             [kind |-> "listing", entries |-> <<FileInfo(RStripSlash(path), "File")>>]}
      [] OTHER -> {Raise("FileNotFoundError")}

\* the backend after a call that changed it
Changed(b, d) == [kind |-> "backend", state |-> b, data |-> d]

\* fs.delete_file(path)
DeleteFile(path) ==
    CASE TypeAt(path) = "File" ->
            Changed([backend EXCEPT ![RStripSlash(path)] = "NotFound"],
                    [data EXCEPT ![RStripSlash(path)] = <<>>])
      [] TypeAt(path) = "Directory" -> Raise("OSError")
      [] OTHER -> Raise("FileNotFoundError")

\* fs.delete_dir(path): the directory and everything in it
DeleteDir(path) ==
    LET dir == RStripSlash(path)
        gone(q) == q = dir \/ StartsWith(q, dir \o <<"/">>)
    IN IF TypeAt(path) = "Directory"
       THEN Changed([q \in BackendPaths |-> IF gone(q) THEN "NotFound" ELSE backend[q]],
                    [q \in BackendPaths |-> IF gone(q) THEN <<>> ELSE data[q]])
       ELSE Raise("OSError")

\* q is the directory dir or lies above it
Above(q, dir) == q = dir \/ StartsWith(dir, q \o <<"/">>)

\* fs.create_dir(path, recursive): succeeds on a directory that exists; it
\* creates the directories missing above path when recursive and fails
\* without the parent otherwise; no directory is created at or below a file
CreateDir(path, recursive) ==
    LET dir == RStripSlash(path)
        chain == {q \in BackendPaths : Above(q, dir)}
    IN IF TypeAt(dir) = "Directory" THEN Changed(backend, data)
       ELSE IF dir \notin BackendPaths \/ \E q \in chain : backend[q] = "File"
       THEN Raise("OSError")
       ELSE IF ~recursive /\ \E q \in chain \ {dir} : backend[q] # "Directory"
       THEN Raise("OSError")
       ELSE Changed([q \in BackendPaths |->
                        IF q \in chain /\ backend[q] = "NotFound"
                        THEN "Directory" ELSE backend[q]],
                    data)

\* fs.move(src, dst): a rename, which the backend may refuse (ok = FALSE); a
\* directory cannot be moved into itself
Move(src, dst, ok) ==
    IF ~ok THEN Raise("OSError")
    ELSE IF TypeAt(src) = "NotFound" THEN Raise("FileNotFoundError")
    ELSE IF src = dst \/ StartsWith(dst, src \o <<"/">>) \/ dst \notin BackendPaths
    THEN Raise("OSError")
    ELSE Changed([q \in BackendPaths |->
                    IF q = dst THEN backend[src]
                    ELSE IF q = src \/ StartsWith(q, src \o <<"/">>) THEN "NotFound"
                    ELSE backend[q]],
                 [q \in BackendPaths |->
                    IF q = dst THEN data[src]
                    ELSE IF q = src \/ StartsWith(q, src \o <<"/">>) THEN <<>>
                    ELSE data[q]])

\* ------------------------------------------- the operations, step by step
\* an operation that has just been called
Operation(name, path, dst, recursive) ==
    [kind |-> "op", name |-> name, path |-> path, dst |-> dst,
     recursive |-> recursive, stage |-> "resolve", context |-> None,
     dst_actual |-> <<>>, source |-> <<>>, before |-> None, failure |-> None,
     cleanup |-> None, create_parents |-> TRUE, exist_ok |-> TRUE,
     detail |-> TRUE]

\* the virtual paths the client calls the operations with: the virtual
\* location of fileset A with and without scheme and with a trailing slash,
\* paths below it, a path of fileset B and a path that names no fileset
FacadePaths ==
    { LocationOfA(FALSE), LocationOfA(TRUE),
      LocationOfA(FALSE) \o <<"/">>,
      LocationOfA(FALSE) \o <<"/", "x">>,
      LocationOfA(TRUE) \o <<"/", "x">>,
      LocationOfA(FALSE) \o <<"/", "d1">>,
      <<"/", "c", "/", "s", "/", "B", "/", "x">>,
      <<"/", "c", "/", "s">> }

\* the storage location the catalog holds for the filesets
FacadeLocations == {HDFS \o <<"h", "/", "d1">>}

\* the operations that take one path
PathOperations == {"ls", "info", "rm_file", "rm", "rmdir"}

\* the client calls an operation that takes one path; the operation starts
\* with self._get_fileset_context(path)
Invoke(name, path, recursive) ==
    /\ recursive => name = "rm"
    /\ op = None
    /\ pc[Client] = "idle"
    /\ calls < MaxCalls
    /\ op' = Operation(name, path, <<>>, recursive)
    /\ out' = None
    /\ trace' = <<>>
    /\ UNCHANGED <<cache, locks, pc, locals, result, history, age, backend, data>>

\* the path the operation resolves at its present stage
Resolving == IF op.stage = "resolve_dst" THEN op.dst ELSE op.path

\* self._get_fileset_context(path) inside an operation
Resolve ==
    /\ op # None
    /\ op.stage \in {"resolve", "resolve_dst"}
    /\ Call(Client, Resolving)

\* _get_fileset_context has returned or raised inside an operation
Resolved ==
    /\ op # None
    /\ op.stage \in {"resolve", "resolve_dst"}
    /\ pc[Client] = "done"

\* the operation ends: it returns value or raises it
Ends(value) ==
    /\ out' = value
    /\ op' = [op EXCEPT !.stage = "ended"]

\* every info dictionary of a listing, or the first exception a conversion raised
RECURSIVE ConvertAll(_, _, _)
ConvertAll(entries, storage_location, virtual_location) ==
    IF entries = <<>> THEN [kind |-> "list", entries |-> <<>>]
    ELSE LET first == ConvertFileInfoPathPrefix(Head(entries), storage_location,
                                                virtual_location)
             rest == ConvertAll(Tail(entries), storage_location, virtual_location)
         IN IF first.kind = "err" THEN first
            ELSE IF rest.kind = "err" THEN rest
            ELSE [kind |-> "list", entries |-> <<first>> \o rest.entries]

\* ls, after _get_fileset_context: the listing of the actual path, every
\* entry converted to its virtual name
Ls(listing) ==
    /\ Resolved
    /\ op.name = "ls"
    /\ Taken(Client)
    /\ LET context == result[Client]
       IN IF context.kind = "err"
          THEN Ends(context) /\ UNCHANGED trace
          ELSE IF ~StartsWith(context.actual_path, HDFS)
          THEN Ends(Raise("ValueError")) /\ UNCHANGED trace
          ELSE /\ trace' = Append(trace, "get_file_info")
               /\ IF listing.kind = "err" THEN Ends(listing)
                  ELSE Ends(ConvertAll(listing.entries,
                                       context.fileset.storage_location,
                                       GetVirtualLocation(context.name_identifier, TRUE)))
    /\ UNCHANGED <<backend, data>>

\* info, after _get_fileset_context: the FileInfo of the actual path, converted
Info ==
    /\ Resolved
    /\ op.name = "info"
    /\ Taken(Client)
    /\ LET context == result[Client]
       IN IF context.kind = "err"
          THEN Ends(context) /\ UNCHANGED trace
          ELSE IF ~StartsWith(context.actual_path, HDFS)
          THEN Ends(Raise("ValueError")) /\ UNCHANGED trace
          ELSE /\ trace' = Append(trace, "get_file_info")
               /\ Ends(ConvertFileInfoPathPrefix(
                           GetFileInfo(StripProtocol(context.actual_path)),
                           context.fileset.storage_location,
                           GetVirtualLocation(context.name_identifier, TRUE)))
    /\ UNCHANGED <<backend, data>>

\* an operation that returns nothing has returned
Returned == [kind |-> "returned"]

\* the operation ends with the outcome of a backend call that changes the
\* backend: it raises what the call raised and returns otherwise
EndsWith(outcome) ==
    IF outcome.kind = "err"
    THEN Ends(outcome) /\ UNCHANGED <<backend, data>>
    ELSE Ends(Returned) /\ backend' = outcome.state /\ data' = outcome.data

\* rm_file, after _get_fileset_context: fs.delete_file(actual_path)
RmFile ==
    /\ Resolved
    /\ op.name = "rm_file"
    /\ Taken(Client)
    /\ LET context == result[Client]
       IN IF context.kind = "err"
          THEN Ends(context) /\ UNCHANGED <<trace, backend, data>>
          ELSE IF ~StartsWith(context.actual_path, HDFS)
          THEN Ends(Raise("ValueError")) /\ UNCHANGED <<trace, backend, data>>
          ELSE /\ trace' = Append(trace, "delete_file")
               /\ EndsWith(DeleteFile(StripProtocol(context.actual_path)))

\* an rm that deletes a directory whatever recursive says
RmCallUnguarded(type, recursive) ==
    IF type = "Directory" THEN "delete_dir" ELSE "delete_file"

\* what rm does with a path of the given type: the backend call it makes, or
\* "raise" for a directory without the recursive flag
RmCall(type, recursive) ==
    IF type = "Directory"
    THEN IF recursive THEN "delete_dir" ELSE "raise"
    ELSE "delete_file"

\* rm, after _get_fileset_context: a directory is deleted only when recursive
\* is set, anything else goes to fs.delete_file
Rm ==
    /\ Resolved
    /\ op.name = "rm"
    /\ Taken(Client)
    /\ LET context == result[Client]
       IN IF context.kind = "err"
          THEN Ends(context) /\ UNCHANGED <<trace, backend, data>>
          ELSE IF ~StartsWith(context.actual_path, HDFS)
          THEN Ends(Raise("ValueError")) /\ UNCHANGED <<trace, backend, data>>
          ELSE LET actual_path == RStripSlash(StripProtocol(context.actual_path))
                   info == GetFileInfo(actual_path)
                   call == RmCall(info.type, op.recursive)
               IN IF call = "delete_dir"
                  THEN /\ trace' = trace \o <<"get_file_info", "delete_dir">>
                       /\ EndsWith(DeleteDir(actual_path))
                  ELSE IF call = "raise"
                  THEN /\ trace' = Append(trace, "get_file_info")
                       /\ Ends(Raise("ValueError"))
                       /\ UNCHANGED <<backend, data>>
                  ELSE /\ trace' = trace \o <<"get_file_info", "delete_file">>
                       /\ EndsWith(DeleteFile(actual_path))

\* rmdir, after _get_fileset_context: fs.delete_dir(actual_path)
Rmdir ==
    /\ Resolved
    /\ op.name = "rmdir"
    /\ Taken(Client)
    /\ LET context == result[Client]
       IN IF context.kind = "err"
          THEN Ends(context) /\ UNCHANGED <<trace, backend, data>>
          ELSE IF ~StartsWith(context.actual_path, HDFS)
          THEN Ends(Raise("ValueError")) /\ UNCHANGED <<trace, backend, data>>
          ELSE /\ trace' = Append(trace, "delete_dir")
               /\ EndsWith(DeleteDir(StripProtocol(context.actual_path)))

\* the operations that create directories
DirOperations == {"mkdir", "makedirs"}

\* the virtual paths the client creates and looks up: the virtual location
\* of fileset A, paths one and two levels below it and a path that names
\* no fileset
DirPaths ==
    { LocationOfA(FALSE),
      LocationOfA(FALSE) \o <<"/", "x">>,
      LocationOfA(TRUE) \o <<"/", "d1">>,
      LocationOfA(FALSE) \o <<"/", "d1", "/", "z">>,
      <<"/", "c", "/", "s">> }

\* the client calls mkdir(path, create_parents=flag) or
\* makedirs(path, exist_ok=flag)
InvokeDir(name, path, flag) ==
    /\ op = None
    /\ pc[Client] = "idle"
    /\ calls < MaxCalls
    /\ op' = IF name = "mkdir"
             THEN [Operation(name, path, <<>>, FALSE) EXCEPT !.create_parents = flag]
             ELSE [Operation(name, path, <<>>, FALSE) EXCEPT !.exist_ok = flag]
    /\ out' = None
    /\ trace' = <<>>
    /\ UNCHANGED <<cache, locks, pc, locals, result, history, age, backend, data>>

\* a mkdir that creates the parents whatever create_parents says
MkdirAlwaysRecursive(create_parents) == TRUE

\* the recursive argument of the create_dir that mkdir ends in: the default
\* (True) of makedirs' call when create_parents is set, False otherwise
MkdirRecursive(create_parents) ==
    IF create_parents THEN TRUE ELSE FALSE

\* makedirs, after _get_fileset_context: fs.create_dir(actual_path), whatever
\* exist_ok says
Makedirs ==
    /\ Resolved
    /\ op.name = "makedirs"
    /\ Taken(Client)
    /\ LET context == result[Client]
       IN IF context.kind = "err"
          THEN Ends(context) /\ UNCHANGED <<trace, backend, data>>
          ELSE IF ~StartsWith(context.actual_path, HDFS)
          THEN Ends(Raise("ValueError")) /\ UNCHANGED <<trace, backend, data>>
          ELSE /\ trace' = Append(trace, "create_dir")
               /\ EndsWith(CreateDir(StripProtocol(context.actual_path), TRUE))

\* mkdir: makedirs(path, exist_ok=True) when create_parents is set, else,
\* after _get_fileset_context, fs.create_dir(actual_path, recursive=False)
Mkdir ==
    /\ Resolved
    /\ op.name = "mkdir"
    /\ Taken(Client)
    /\ LET context == result[Client]
       IN IF context.kind = "err"
          THEN Ends(context) /\ UNCHANGED <<trace, backend, data>>
          ELSE IF ~StartsWith(context.actual_path, HDFS)
          THEN Ends(Raise("ValueError")) /\ UNCHANGED <<trace, backend, data>>
          ELSE /\ trace' = Append(trace, "create_dir")
               /\ EndsWith(CreateDir(StripProtocol(context.actual_path),
                                     MkdirRecursive(op.create_parents)))

\* the value an operation returns
Value(v) == [kind |-> "value", value |-> v]

\* what fs.get_file_info([actual_path]) can answer inside info: the FileInfo
\* of the path, or an error of the backend
InfoAnswers ==
    IF pc[Client] = "done" /\ result[Client].kind = "ok"
    THEN {GetFileInfo(StripProtocol(result[Client].actual_path)), Raise("OSError")}
    ELSE {None}

\* self.info(path), after _get_fileset_context returned or raised context and
\* the backend gave answer
InfoOf(context, answer) ==
    IF context.kind = "err" THEN context
    ELSE IF ~StartsWith(context.actual_path, HDFS) THEN Raise("ValueError")
    ELSE IF answer.kind = "err" THEN answer
    ELSE ConvertFileInfoPathPrefix(answer, context.fileset.storage_location,
                                   GetVirtualLocation(context.name_identifier, TRUE))

\* an exists that takes every exception for a missing path
ExistsOfAnyError(info) ==
    Value(info.kind # "err")

\* exists: False when self.info(path) raised FileNotFoundError, True when it
\* returned; any other exception goes on to the caller
ExistsOf(info) ==
    IF info.kind # "err" THEN Value(TRUE)
    ELSE IF info.type = "FileNotFoundError" THEN Value(FALSE)
    ELSE info

\* exists, after the _get_fileset_context of self.info(path)
Exists(answer) ==
    /\ Resolved
    /\ op.name = "exists"
    /\ Taken(Client)
    /\ LET context == result[Client]
       IN /\ trace' = IF context.kind = "ok" /\ StartsWith(context.actual_path, HDFS)
                      THEN Append(trace, "get_file_info") ELSE trace
          /\ Ends(ExistsOf(InfoOf(context, answer)))
    /\ UNCHANGED <<backend, data>>

\* a comparison that lets every pair of paths through
CheckNothing(src, dst) == None

\* the first lines of cp_file and mv: both paths are parsed and must name the
\* same fileset; None when they do, else the exception raised
CheckSameFileset(src, dst) ==
    LET src_identifier == ExtractIdentifier(src)
        dst_identifier == ExtractIdentifier(dst)
    IN IF src_identifier.kind = "err" THEN src_identifier
       ELSE IF dst_identifier.kind = "err" THEN dst_identifier
       ELSE IF src_identifier # dst_identifier THEN Raise("ValueError")
       ELSE None

\* the operations that take a source and a destination
PairOperations == {"mv", "cp_file"}

\* the destinations: a path of fileset A, a path of fileset B and a path
\* that names no fileset
FacadeDestinations ==
    { LocationOfA(FALSE) \o <<"/", "y">>,
      <<"/", "c", "/", "s", "/", "B", "/", "x">>,
      <<"/", "c", "/", "s">> }

\* the client calls cp_file or mv: the identifiers are compared before
\* anything else
InvokePair(name, src, dst) ==
    /\ op = None
    /\ pc[Client] = "idle"
    /\ calls + 2 <= MaxCalls
    /\ LET check == CheckSameFileset(src, dst)
       IN IF check = None
          THEN /\ op' = Operation(name, src, dst, FALSE)
               /\ out' = None
          ELSE /\ op' = [Operation(name, src, dst, FALSE) EXCEPT !.stage = "ended"]
               /\ out' = check
    /\ trace' = <<>>
    /\ UNCHANGED <<cache, locks, pc, locals, result, history, age, backend, data>>

\* cp_file and mv, after the source's _get_fileset_context: a fileset that
\* mounts a single file is refused; the destination is resolved next
CheckSource(info) ==
    /\ Resolved
    /\ op.name \in PairOperations
    /\ op.stage = "resolve"
    /\ Taken(Client)
    /\ LET src_context == result[Client]
           single == CheckMountSingleFile(info)
       IN IF src_context.kind = "err"
          THEN Ends(src_context) /\ UNCHANGED trace
          ELSE IF ~StartsWith(src_context.actual_path, HDFS)
          THEN Ends(Raise("ValueError")) /\ UNCHANGED trace
          ELSE /\ trace' = Append(trace, "get_file_info")
               /\ IF single.kind = "err" THEN Ends(single)
                  ELSE IF single.value THEN Ends(Raise("ValueError"))
                  ELSE /\ op' = [op EXCEPT !.stage = "resolve_dst",
                                           !.context = src_context]
                       /\ UNCHANGED out
    /\ UNCHANGED <<backend, data>>

\* mv, after the destination's _get_fileset_context: fs.move(src, dst)
Mv(ok) ==
    /\ Resolved
    /\ op.name = "mv"
    /\ op.stage = "resolve_dst"
    /\ Taken(Client)
    /\ LET dst_context == result[Client]
       IN IF dst_context.kind = "err"
          THEN Ends(dst_context) /\ UNCHANGED <<trace, backend, data>>
          ELSE /\ trace' = Append(trace, "move")
               /\ EndsWith(Move(RStripSlash(StripProtocol(op.context.actual_path)),
                                RStripSlash(StripProtocol(dst_context.actual_path)),
                                ok))

\* what the backend holds under a path: the type and, for a file, the content
Held(path) == [kind |-> "held", type |-> TypeAt(path), data |-> data[path]]

\* a cleanup that deletes nothing and reports the name as missing
CleanupSkipped(tmp_dst_name, ok) == Raise("FileNotFoundError")

\* the delete_file(tmp_dst_name) of cp_file's exception handler, which the
\* backend may refuse (ok = FALSE)
Cleanup(tmp_dst_name, ok) ==
    IF ok THEN DeleteFile(tmp_dst_name) ELSE Raise("PermissionError")

\* an exception handler that lets every exception of the cleanup through
ReraiseUnsuppressed(original, cleanup) ==
    IF cleanup.kind = "err" THEN cleanup ELSE original

\* with suppress(FileNotFoundError): <cleanup>, then raise: what cp_file
\* raises after original was caught and the cleanup ended as cleanup
Reraise(original, cleanup) ==
    IF cleanup.kind = "err" /\ cleanup.type # "FileNotFoundError"
    THEN cleanup ELSE original

\* the exception handler of cp_file: original was raised after the calls
\* made, the temporary name then holding written; the temporary name is
\* deleted and the exception raised again
Handle(called, original, tmp_dst_name, made, written, cleaned) ==
    LET cleanup == Cleanup(tmp_dst_name, cleaned)
    IN /\ trace' = trace \o made \o <<"delete_file">>
       /\ IF cleanup.kind = "err"
          THEN /\ backend' = backend
               /\ data' = [data EXCEPT ![tmp_dst_name] = written]
          ELSE /\ backend' = cleanup.state
               /\ data' = cleanup.data
       /\ out' = Reraise(original, cleanup)
       /\ op' = [called EXCEPT !.stage = "ended", !.failure = original,
                               !.cleanup = IF cleanup.kind = "err" THEN cleanup
                                           ELSE Returned]

\* cp_file, after the destination's _get_fileset_context: the source is
\* opened for reading and the temporary name for writing, which creates it
\* empty unless the backend refuses (ok = FALSE)
CpOpen(ok, cleaned) ==
    /\ Resolved
    /\ op.name = "cp_file"
    /\ op.stage = "resolve_dst"
    /\ Taken(Client)
    /\ LET dst_context == result[Client]
           src_actual_path == RStripSlash(StripProtocol(op.context.actual_path))
           dst_actual_path == RStripSlash(StripProtocol(dst_context.actual_path))
           tmp_dst_name == TmpName(dst_actual_path)
           called == [op EXCEPT !.dst_actual = dst_actual_path,
                                !.source = data[src_actual_path],
                                !.before = Held(dst_actual_path)]
       IN IF dst_context.kind = "err"
          THEN Ends(dst_context) /\ UNCHANGED <<trace, backend, data>>
          ELSE IF TypeAt(src_actual_path) # "File"
          THEN /\ trace' = Append(trace, "open_input_stream")
               /\ Ends(Raise(IF TypeAt(src_actual_path) = "NotFound"
                              THEN "FileNotFoundError" ELSE "OSError"))
               /\ UNCHANGED <<backend, data>>
          ELSE IF ~ok
          THEN Handle(called, Raise("OSError"), tmp_dst_name,
                      <<"open_input_stream", "open_output_stream">>,
                      data[tmp_dst_name], cleaned)
          ELSE /\ trace' = trace \o <<"open_input_stream", "open_output_stream">>
               /\ backend' = [backend EXCEPT ![tmp_dst_name] = "File"]
               /\ data' = [data EXCEPT ![tmp_dst_name] = <<>>]
               /\ op' = [called EXCEPT !.stage = "opened"]
               /\ UNCHANGED out

\* cp_file: shutil.copyfileobj(lstream, rstream) writes the chunks of the
\* source to the temporary name, all of them or, when a write fails, the
\* first n only
CpCopy(n, cleaned) ==
    /\ op # None
    /\ op.name = "cp_file"
    /\ op.stage = "opened"
    /\ LET source == data[RStripSlash(StripProtocol(op.context.actual_path))]
           tmp_dst_name == TmpName(op.dst_actual)
       IN /\ n <= Len(source)
          /\ IF n < Len(source)
             THEN Handle(op, Raise("OSError"), tmp_dst_name, <<>>,
                         SubSeq(source, 1, n), cleaned)
             ELSE /\ data' = [data EXCEPT ![tmp_dst_name] = source]
                  /\ op' = [op EXCEPT !.stage = "written"]
                  /\ UNCHANGED <<backend, out, trace>>
    /\ UNCHANGED <<cache, locks, pc, locals, result, history, age>>

\* cp_file: dst_context.fs.move(tmp_dst_name, dst_actual_path), a rename the
\* backend may refuse (ok = FALSE)
CpMove(ok, cleaned) ==
    /\ op # None
    /\ op.name = "cp_file"
    /\ op.stage = "written"
    /\ LET tmp_dst_name == TmpName(op.dst_actual)
           moved == Move(tmp_dst_name, op.dst_actual, ok)
       IN IF moved.kind = "err"
          THEN Handle(op, moved, tmp_dst_name, <<"move">>, data[tmp_dst_name], cleaned)
          ELSE /\ trace' = Append(trace, "move")
               /\ backend' = moved.state
               /\ data' = moved.data
               /\ Ends(Returned)
    /\ UNCHANGED <<cache, locks, pc, locals, result, history, age>>

\* the client has the value or the exception of the operation
Finish ==
    /\ op # None
    /\ op.stage = "ended"
    /\ op' = None
    /\ out' = None
    /\ trace' = <<>>
    /\ UNCHANGED <<cache, locks, pc, locals, result, history, age, backend, data>>

\* ---------------------------------------------------------- specifications
\* one step of thread t, its calls drawn from paths and the catalog's answers
\* from locations
Step(t, paths, locations) ==
    \/ \E path \in paths : Call(t, path)
    \/ ReadAcquire(t)
    \/ ReadGet(t)
    \/ \E info \in ProbeOutcomes : ReadProbe(t, info)
    \/ WriteAcquire(t)
    \/ WriteGet(t)
    \/ \E info \in ProbeOutcomes : WriteProbe(t, info)
    \/ \E answer \in CatalogAnswers(identifier[t], locations) : Fetch(t, answer)
    \/ /\ pc[t] = "build"
       /\ \E answer \in BuildAnswers(fileset[t].storage_location) : Build(t, answer)
    \/ \E info \in ProbeOutcomes : Translate(t, info)
    \/ Return(t)

Next == \E t \in Threads : Step(t, VirtualPaths, StorageLocations)

Spec == Init /\ [][Next]_vars

\* the same program while the clock runs
TimedNext == Next \/ Tick

TimedSpec == Init /\ [][TimedNext]_vars

\* every step of a call but its start
Proceed(t) ==
    \/ ReadAcquire(t)
    \/ ReadGet(t)
    \/ \E info \in ProbeOutcomes : ReadProbe(t, info)
    \/ WriteAcquire(t)
    \/ WriteGet(t)
    \/ \E info \in ProbeOutcomes : WriteProbe(t, info)
    \/ \E answer \in CatalogAnswers(identifier[t], FairLocations) : Fetch(t, answer)
    \/ /\ pc[t] = "build"
       /\ \E answer \in BuildAnswers(fileset[t].storage_location) : Build(t, answer)
    \/ \E info \in ProbeOutcomes : Translate(t, info)

FairNext == \E t \in Threads : Step(t, FairPaths, FairLocations)

\* the program under a fair lock (requests are served in arrival order, so a
\* thread that can take the lock does) and with catalog and backend calls
\* that all return: a thread inside a call eventually takes its next step
FairSpec == Init /\ [][FairNext]_vars /\ \A t \in Threads : WF_vars(Proceed(t))

\* the two translations applied to every path, location and backend answer
PathNext ==
    \/ \E path \in TranslatedPaths, location \in HdfsLocations,
          info \in ProbeOutcomes : ToActual(path, location, info)
    \/ \E entry \in Entries : ToVirtual(entry)

PathSpec == Init /\ [][PathNext]_vars

\* a filesystem object used by one client, over a backend in one of its states
FacadeInit ==
    /\ NewFileSystem
    /\ op = None
    /\ backend \in InitialBackends
    /\ data = InitialData(backend)
    /\ out = None
    /\ trace = <<>>

\* what ls can get from the backend for the actual path of the context
ListingAnswers ==
    IF pc[Client] = "done" /\ result[Client].kind = "ok"
    THEN Listings(StripProtocol(result[Client].actual_path))
    ELSE {None}

\* the steps of _get_fileset_context inside an operation, the backend
\* answering the probes from its state; the only thread never finds, on its
\* second look under the writer lock, an entry that it missed on the first
ResolveStep ==
    \/ Resolve
    \/ ReadAcquire(Client)
    \/ ReadGet(Client)
    \/ /\ pc[Client] = "read_probe"
       /\ \E info \in Probe(cache_value[Client].fileset) : ReadProbe(Client, info)
    \/ WriteAcquire(Client)
    \/ WriteGet(Client)
    \/ \E answer \in CatalogAnswers(identifier[Client], FacadeLocations) :
           Fetch(Client, answer)
    \/ /\ pc[Client] = "build"
       /\ \E answer \in BuildAnswers(fileset[Client].storage_location) :
              Build(Client, answer)
    \/ /\ pc[Client] = "translate"
       /\ \E info \in Probe(fileset[Client]) : Translate(Client, info)

\* what the probe of cp_file and mv can get for the source's fileset
SourceProbes ==
    IF pc[Client] = "done" /\ result[Client].kind = "ok"
    THEN Probe(result[Client].fileset)
    ELSE {"raise"}

FacadeNext ==
    \/ \E name \in PathOperations, path \in FacadePaths,
          recursive \in BOOLEAN : Invoke(name, path, recursive)
    \/ \E name \in PairOperations, src \in FacadePaths, dst \in FacadeDestinations :
           InvokePair(name, src, dst)
    \/ ResolveStep
    \/ \E listing \in ListingAnswers : Ls(listing)
    \/ Info
    \/ RmFile
    \/ Rm
    \/ Rmdir
    \/ \E info \in SourceProbes : CheckSource(info)
    \/ \E ok \in BOOLEAN : Mv(ok)
    \/ \E ok \in BOOLEAN, cleaned \in BOOLEAN : CpOpen(ok, cleaned)
    \/ \E n \in 0..MaxChunks, cleaned \in BOOLEAN : CpCopy(n, cleaned)
    \/ \E ok \in BOOLEAN, cleaned \in BOOLEAN : CpMove(ok, cleaned)
    \/ Finish

FacadeSpec == FacadeInit /\ [][FacadeNext]_vars

\* a scheme that is not the one of the virtual filesystem
ForeignPrefix == <<"s3:", "/", "/", "bucket">>

\* the strings of at most n of the tokens "/", "c" and "A"
RECURSIVE Strings(_)
Strings(n) ==
    IF n = 0 THEN {<<>>}
    ELSE LET shorter == Strings(n - 1)
         IN shorter \cup {Append(p, t) : p \in shorter, t \in {"/", "c", "A"}}

\* the arguments _extract_identifier is called with: None, and every string
\* up to MaxPathLen tokens, bare, behind gvfs://fileset and behind s3://bucket
ParseArguments ==
    {None} \cup {Str(prefix \o p) : prefix \in {<<>>, GvfsPrefix, ForeignPrefix},
                                    p \in Strings(MaxPathLen)}

\* self._extract_identifier(path)
Parse(path) ==
    /\ op' = [kind |-> "op", name |-> "parse", path |-> path,
              identifier |-> ExtractIdentifierOf(path)]
    /\ UNCHANGED <<cache, locks, pc, locals, result, history, age, backend, data,
                   out, trace>>

\* one call of the parser
ParseNext == op = None /\ \E path \in ParseArguments : Parse(path)

\* the parser applied to every argument
ParseSpec == Init /\ [][ParseNext]_vars

\* the operations that create directories and look paths up
DirNext ==
    \/ \E name \in DirOperations, path \in DirPaths, flag \in BOOLEAN :
           InvokeDir(name, path, flag)
    \/ \E name \in {"info", "exists"}, path \in DirPaths : Invoke(name, path, FALSE)
    \/ ResolveStep
    \/ Mkdir
    \/ Makedirs
    \/ Info
    \/ \E answer \in InfoAnswers : Exists(answer)
    \/ Finish

DirSpec == FacadeInit /\ [][DirNext]_vars

\* ------------------------------------------------------------------ claims
\* the steps from the catalog fetch to the cache insert
LoadSection == {"fetch", "build", "translate"}

SameIdentifier(t, u) ==
    /\ t # u
    /\ identifier[t] # None
    /\ identifier[t] = identifier[u]

\* C1 as stated: when a loader leaves the load section while another thread
\* that missed the same identifier waits for the writer lock, the entry is in
\* the cache, so that the waiting thread skips the fetch and the fetch of the
\* loader stays the only one
C1_ExactlyOneFetch ==
    [][\A t, u \in Threads :
          (/\ SameIdentifier(t, u)
           /\ pc[t] \in LoadSection /\ pc'[t] = "done"
           /\ pc[u] = "write_lock")
              => cache'[identifier[u]] # None]_vars

\* C1, amended: the load that inserts the entry made one fetch and one
\* construction; every other fetch for the identifier belongs to a call that
\* has ended in an error without inserting; and a thread is between fetch and
\* insert only while the identifier is absent from the cache, so whoever takes
\* the writer lock after the insert finds the entry and does not fetch
C1_SingleFlight ==
    /\ \A t \in Threads : inserted[t] => (fetched[t] /\ built[t])
    /\ \A t, u \in Threads :
           (SameIdentifier(t, u) /\ inserted[t] /\ fetched[u])
               => (pc[u] = "done" /\ result[u].kind = "err" /\ ~inserted[u])
    /\ \A t \in Threads :
           pc[t] \in LoadSection => cache[identifier[t]] = None
    /\ \A t \in Threads :
           pc[t] = "write_probe" => (~fetched[t] /\ ~built[t])

\* C1 witness: a thread that missed the identifier under the reader lock finds,
\* on its re-check under the writer lock, the entry that the loader, whose call
\* has just ended, inserted in the meantime
C1_Witness ==
    \E t, u \in Threads :
        /\ SameIdentifier(t, u)
        /\ pc[t] = "done" /\ inserted[t]
        /\ pc[u] = "write_probe"
        /\ cache_value[u] = cache[identifier[t]]

\* C2: two threads are never both between the catalog fetch and the cache
\* insert for the same identifier
C2_OneLoadInFlight ==
    \A t, u \in Threads :
        SameIdentifier(t, u) => ~(pc[t] \in LoadSection /\ pc[u] \in LoadSection)

\* C2 witness: one thread loads while another, which missed the same
\* identifier, waits for the writer lock
C2_Witness ==
    \E t, u \in Threads :
        /\ SameIdentifier(t, u)
        /\ pc[t] \in LoadSection
        /\ pc[u] = "write_lock"

\* C3: a thread reads the cache only while it holds the lock (reader or writer
\* mode) and the cache changes only by a step of a thread holding it in writer
\* mode; a writer never holds the lock with another writer or with a reader
C3_LockDiscipline ==
    /\ [](/\ Cardinality(writers) <= 1
          /\ (writers # {} => readers = {})
          /\ \A t \in Threads :
                /\ pc[t] \in {"read_get", "read_probe"} => t \in readers
                /\ pc[t] \in {"write_get", "write_probe"} \cup LoadSection
                       => t \in writers)
    /\ [][/\ \A t \in Threads :
                (cache_value'[t] # cache_value[t] /\ cache_value'[t] # None)
                    => (t \in readers \/ t \in writers)
          /\ cache' # cache
                => \E t \in writers : pc[t] = "translate" /\ pc'[t] = "done"]_vars

\* C3 witness: two readers hold the lock together, one of them reading a value
C3_Witness ==
    /\ Cardinality(readers) >= 2
    /\ \E t \in readers : pc[t] = "read_probe" /\ cache_value[t] # None

\* a complete cache value for identifier i: the fileset the catalog can
\* return for i, with a filesystem built from that fileset's storage location
Complete(v, i) ==
    /\ v.kind = "entry"
    /\ v.fileset \in {Fileset(i, loc) : loc \in StorageLocations}
    /\ v.fs = FromUri(v.fileset.storage_location)

\* C4: every value stored under a key, and every value a call has read from
\* the cache, is complete and belongs to the identifier it was read for
C4_CompleteEntries ==
    /\ \A i \in Identifiers : cache[i] # None => Complete(cache[i], i)
    /\ \A t \in Threads :
           cache_value[t] # None => Complete(cache_value[t], identifier[t])

\* C4 witness: a call holds a value it read for its identifier while the cache
\* also holds an entry of another identifier
C4_Witness ==
    \E t \in Threads :
        /\ cache_value[t] # None
        /\ \E i \in Identifiers : i # identifier[t] /\ cache[i] # None

\* C5: while a thread is between fetch and insert the cache changes only by
\* that thread's successful insert, and a call that ends at the catalog fetch
\* or at the backend construction ends with the error that was raised, the
\* cache as it was and no entry under the identifier
C5_FailedLoadInsertsNothing ==
    [][\A t \in Threads :
          /\ (pc[t] \in LoadSection /\ cache' # cache)
                => (pc[t] = "translate" /\ result'[t].kind = "ok")
          /\ (pc[t] \in {"fetch", "build"} /\ pc'[t] = "done")
                => /\ result'[t].kind = "err"
                   /\ result'[t].type \in {"CatalogError", "ValueError", "BuildError"}
                   /\ cache' = cache
                   /\ cache'[identifier[t]] = None]_vars

\* C5 witness: a call has ended with the catalog's or the construction's
\* error, and its identifier is not in the cache
C5_Witness ==
    \E t \in Threads :
        /\ pc[t] = "done" /\ fetched[t] /\ ~inserted[t]
        /\ result[t].kind = "err"
        /\ result[t].type \in {"CatalogError", "BuildError"}
        /\ cache[identifier[t]] = None

\* C6 as stated: no call takes from the cache an entry that was stored
\* cache_expired_time or more seconds before
C6_ExpiredEntryNotServed ==
    \A t \in Threads : ~stale_hit[t]

\* C7 as stated: the cache never holds more than cache_size entries
C7_CacheBounded ==
    Cardinality({i \in Identifiers : cache[i] # None}) <= CacheSize

\* C8 as stated: a thread that holds the reader lock is never waiting for the
\* answer of a backend call
C8_HitWithoutBackendCall ==
    \A t \in readers : pc[t] # "read_probe"

\* C9 as stated: while a thread is between fetch and insert for one
\* identifier, a thread that is next in line for the reader lock, for another
\* identifier that is in the cache, can take the lock
C9_UnrelatedHitNotBlocked ==
    \A t, u \in Threads :
        (/\ pc[t] \in LoadSection
         /\ pc[u] = "read_lock"
         /\ identifier[u] # identifier[t]
         /\ cache[identifier[u]] # None
         /\ queue # <<>> /\ Head(queue) = u)
            => CanAcquireRead(u)

\* C10: under the fair specification every call that has started comes to its
\* end: it returns or raises
C10_EveryCallEnds ==
    \A t \in Threads : (pc[t] # "idle") ~> (pc[t] = "done")

\* C10 witness: a thread waits for the lock while another holds it in a mode
\* that excludes the request
C10_Witness ==
    \E t, u \in Threads :
        /\ t # u
        /\ \/ pc[t] = "write_lock" /\ (u \in readers \/ u \in writers)
           \/ pc[t] = "read_lock" /\ u \in writers

\* ---------------------------------------------- claims on path translation
\* a virtual path has been translated
Translated == op # None /\ op.name = "translate"

\* and a FileInfo of the backend has been converted for the same fileset
Converted == Translated /\ op.entry # None

\* the storage location of the translated fileset, as the backend sees it
Root == StripProtocol(op.fileset.storage_location)

\* the virtual path was that of a directory fileset, carried the scheme as the
\* virtual location given to the conversion does, the translation gave an
\* actual path and the backend reported an existing object under that path
RoundTripCase ==
    /\ Converted
    /\ StartsWith(op.path, GvfsPrefix)
    /\ op.probe = "Directory"
    /\ op.actual.kind = "path"
    /\ op.entry.path = StripProtocol(op.actual.path)
    /\ op.entry.type # "NotFound"

\* C11 as stated: translating V/r to its actual path and that actual path back
\* yields V/r again, whatever r contains
C11_RoundTrip ==
    RoundTripCase => (out.kind = "info" /\ out.name = op.path)

\* C12: for a fileset that is not a single-file mount the virtual path starts
\* with its virtual location and the actual path is the storage location
\* followed by exactly the rest of the virtual path, with and without scheme
C12_LeftAnchoredOnce ==
    (Translated /\ op.probe \in {"Directory", "NotFound"})
        => LET location == GetVirtualLocation(op.name_identifier,
                                              StartsWith(op.path, GvfsPrefix))
           IN /\ StartsWith(op.path, location)
              /\ op.actual.kind = "path"
              /\ op.actual.path =
                     op.fileset.storage_location
                         \o SubSeq(op.path, Len(location) + 1, Len(op.path))

\* C12 witness: a path without scheme that holds its virtual location twice
\* has been translated, and only the leading one was replaced
C12_Witness ==
    /\ Translated
    /\ op.probe = "Directory"
    /\ op.path = LocationOfA(FALSE) \o LocationOfA(FALSE)
    /\ op.actual.kind = "path"
    /\ op.actual.path = op.fileset.storage_location \o LocationOfA(FALSE)

\* C14: a backend path that does not start with the protocol-stripped storage
\* location is not translated: the conversion raises the prefix error
C14_PrefixMismatchFails ==
    (Converted /\ ~StartsWith(op.entry.path, Root))
        => (out.kind = "err" /\ out = Raise("ValueError"))

\* C14 witness: the conversion was handed an existing path elsewhere on the
\* backend and raised
C14_Witness ==
    /\ Converted
    /\ op.entry = FileInfo(<<"/", "other", "/", "d1">>, "File")
    /\ out = Raise("ValueError")

\* C15 as stated: a backend path that was translated into a name is the
\* storage location itself or lies below it by path components
C15_OnlyDescendantsTranslated ==
    (Converted /\ out.kind = "info")
        => \/ op.entry.path = Root
           \/ StartsWith(op.entry.path, Root \o <<"/">>)

\* ------------------------------------------------ claims on the operations
\* the operation has returned or raised
Ended(names) == op # None /\ op.name \in names /\ op.stage = "ended"

\* path with the scheme in front, whether it was given with it or without
WithScheme(path) ==
    IF StartsWith(path, GvfsPrefix) THEN path ELSE GvfsPrefix \o path

\* path is the virtual location of the fileset it names
IsLocation(path) ==
    /\ PatternMatches(path)
    /\ path = GetVirtualLocation(ExtractIdentifier(path), StartsWith(path, GvfsPrefix))

\* the storage locations of the filesets, as the backend sees them
MountRoots == {StripProtocol(l) : l \in FacadeLocations}

\* the calls that change the backend
Mutations == {"delete_file", "delete_dir", "move", "open_output_stream"}

\* C13 as stated: a name returned by info or ls starts with gvfs://fileset
\* exactly when the path of the call did, and info returns the path it was
\* given as the name
C13_SchemeAsGiven ==
    /\ (Ended({"info"}) /\ out.kind = "info") => out.name = op.path
    /\ (Ended({"ls"}) /\ out.kind = "list")
          => \A i \in DOMAIN out.entries :
                StartsWith(out.entries[i].name, GvfsPrefix)
                    <=> StartsWith(op.path, GvfsPrefix)

\* the name the actual path of a context comes back as when a FileInfo of an
\* existing object under it is converted
BackTranslation(context) ==
    ConvertFileInfoPathPrefix(
        FileInfo(StripProtocol(context.actual_path), "File"),
        context.fileset.storage_location,
        GetVirtualLocation(context.name_identifier, TRUE))

\* C16 as stated: a context that _get_fileset_context returns holds an actual
\* path that translates back to the virtual path of the call (whose scheme
\* may have been left out)
C16_ActualPathValidated ==
    (pc[Client] = "done" /\ result[Client].kind = "ok")
        => /\ BackTranslation(result[Client]).kind = "info"
           /\ BackTranslation(result[Client]).name = WithScheme(virtual_path[Client])

\* C17: when the storage location is a single file, a call of
\* _get_fileset_context that returns was made with the virtual location
\* itself and returns the storage location; any other path has raised
C17_SingleFileOnlyLocation ==
    (/\ pc[Client] = "done"
     /\ result[Client].kind = "ok"
     /\ TypeAt(StripProtocol(result[Client].fileset.storage_location)) = "File")
        => /\ IsLocation(virtual_path[Client])
           /\ result[Client].actual_path = result[Client].fileset.storage_location

\* C17 witness: on a hit, the virtual location of a single-file mount has
\* been resolved to the storage location
C17_Witness ==
    /\ pc[Client] = "done"
    /\ ~fetched[Client]
    /\ result[Client].kind = "ok"
    /\ TypeAt(StripProtocol(result[Client].fileset.storage_location)) = "File"
    /\ virtual_path[Client] = LocationOfA(TRUE)
    /\ result[Client].actual_path = result[Client].fileset.storage_location

\* C18 as stated: ls of the virtual location of a fileset whose storage
\* location is a file raises
C18_LsOfSingleFileFails ==
    (/\ Ended({"ls"})
     /\ IsLocation(op.path)
     /\ \E r \in MountRoots : TypeAt(r) = "File")
        => out.kind = "err"

\* C19 as stated: while the storage location of a fileset is a single file,
\* no step of mv, cp_file, rm, rm_file or rmdir makes a call that changes the
\* backend, and the file stays where it is
C19_MountedFileStays ==
    [][\A r \in MountRoots :
          (/\ op # None
           /\ op.name \in {"mv", "cp_file", "rm", "rm_file", "rmdir"}
           /\ TypeAt(r) = "File")
              => /\ backend'[r] = "File"
                 /\ \A i \in DOMAIN trace' : trace'[i] \notin Mutations]_vars

\* the operation started by this step is cp_file or mv with two paths that
\* parse to different identifiers
CrossFileset(o) ==
    /\ o # None
    /\ o.name \in PairOperations
    /\ ExtractIdentifier(o.path).kind = "ident"
    /\ ExtractIdentifier(o.dst).kind = "ident"
    /\ ExtractIdentifier(o.path) # ExtractIdentifier(o.dst)

\* C20: cp_file and mv with paths of different filesets raise in the step
\* that calls them: _get_fileset_context is not entered, so the catalog is
\* not called, and neither the cache nor the backend is touched
C20_CrossFilesetFailsFirst ==
    [][(op = None /\ CrossFileset(op'))
          => /\ op'.stage = "ended"
             /\ out' = Raise("ValueError")
             /\ trace' = <<>>
             /\ UNCHANGED <<cache, backend, pc, calls, fetched, built>>]_vars

\* C20 witness: mv between two filesets has raised while the source's
\* fileset is in the cache, without a call to the backend
C20_Witness ==
    /\ Ended({"mv"})
    /\ CrossFileset(op)
    /\ cache[ExtractIdentifier(op.path)] # None
    /\ out = Raise("ValueError")
    /\ trace = <<>>
    /\ pc[Client] = "idle"

\* ------------------------------------------------------- claims on cp_file
\* cp_file has raised after the write to the temporary name or the rename failed
CopyFailed == Ended({"cp_file"}) /\ op.failure # None

\* the cleanup of the failed copy raised an error that is no not-found
CleanupFailed == op.cleanup.kind = "err" /\ op.cleanup.type # "FileNotFoundError"

\* C21 as stated: when the write to the temporary name or the rename failed
\* and cp_file has raised, the destination holds what it held before the call
\* and the temporary name does not exist
C21_FailedCopyLeavesNoTrace ==
    CopyFailed
        => /\ Held(op.dst_actual) = op.before
           /\ TypeAt(TmpName(op.dst_actual)) = "NotFound"

\* C21 amended: when the write to the temporary name or the rename failed and
\* cp_file has raised, the destination holds what it held before the call,
\* and the temporary name does not exist unless its cleanup delete failed
\* with an error other than not-found
C21_FailedCopyBestEffort ==
    CopyFailed
        => /\ Held(op.dst_actual) = op.before
           /\ TypeAt(TmpName(op.dst_actual)) = "NotFound" \/ CleanupFailed

\* the rename onto an existing destination failed and the cleanup deleted the
\* temporary file
C21_Witness ==
    /\ CopyFailed
    /\ op.before.type = "File"
    /\ op.cleanup = Returned
    /\ trace[Len(trace) - 1] = "move"

\* cp_file has opened its streams for the destination op.dst_actual
Copying == op # None /\ op.name = "cp_file" /\ op.before # None

\* C22: from the moment cp_file opens its streams the destination holds what
\* it held before the call or the complete content of the source, and it
\* changes only in the step that renames the completely written temporary
\* file; the step that opens a stream for writing leaves it as it is
C22_DestinationChangesByOneRename ==
    [][Copying' =>
          LET dst == op'.dst_actual
              now == [kind |-> "held", type |-> backend[dst], data |-> data[dst]]
              next == [kind |-> "held", type |-> backend'[dst], data |-> data'[dst]]
              copy == [kind |-> "held", type |-> "File", data |-> op'.source]
          IN /\ next \in {op'.before, copy}
             /\ next # now
                  => /\ op.stage = "written"
                     /\ data[TmpName(dst)] = op.source
                     /\ trace' = Append(trace, "move")
                     /\ next = copy]_vars

\* cp_file has returned and the destination, a file with another content
\* before the call, holds the content of the source
C22_Witness ==
    /\ Ended({"cp_file"})
    /\ out = Returned
    /\ op.before.type = "File"
    /\ op.before.data # op.source
    /\ op.source # <<>>
    /\ Held(op.dst_actual).data = op.source

\* C23 as stated: when the write or the rename has failed, what cp_file raises
\* is that failure
C23_OriginalFailureRaised ==
    CopyFailed => out = op.failure

\* C23 amended: when the write or the rename has failed, what cp_file raises
\* is that failure unless the cleanup delete raised an error other than
\* not-found; a not-found of the cleanup is swallowed
C23_NotFoundOfCleanupSwallowed ==
    CopyFailed /\ ~CleanupFailed => out = op.failure

\* the open of the temporary name failed, the cleanup found nothing to delete
\* and cp_file raised the failure of the open
C23_Witness ==
    /\ CopyFailed
    /\ op.cleanup = Raise("FileNotFoundError")
    /\ out = op.failure

\* ------------------------------------- claims on deleting and creating
\* the step in which the operation name, its path resolved to a context,
\* acts on the backend and ends
Reaches(name) ==
    /\ Resolved
    /\ op.name = name
    /\ result[Client].kind = "ok"
    /\ op'.stage = "ended"

\* the actual path the operation acts on, as the backend names it
Target == RStripSlash(StripProtocol(result[Client].actual_path))

\* q is the path p or lies below it
Below(q, p) == q = p \/ StartsWith(q, p \o <<"/">>)

\* the calls the operation will have made to the backend hold none of names
NotCalled(names) == \A i \in DOMAIN trace' : trace'[i] \notin names

\* C24: rm without recursive on a directory raises, calls no delete and
\* leaves the backend as it is; rm with recursive on a directory returns and
\* the directory and all below it are gone; rm on a file returns and the
\* file is gone, with and without recursive
C24_RmDirectoryNeedsRecursive ==
    [][Reaches("rm") =>
          /\ TypeAt(Target) = "Directory" /\ ~op.recursive
                => /\ out'.kind = "err"
                   /\ NotCalled({"delete_file", "delete_dir"})
                   /\ UNCHANGED <<backend, data>>
          /\ TypeAt(Target) = "Directory" /\ op.recursive
                => /\ out' = Returned
                   /\ backend' = [q \in BackendPaths |->
                                     IF Below(q, Target) THEN "NotFound"
                                     ELSE backend[q]]
          /\ TypeAt(Target) = "File"
                => /\ out' = Returned
                   /\ backend' = [backend EXCEPT ![Target] = "NotFound"]]_vars

\* rm without recursive has raised on a directory with something in it,
\* after asking the backend for the type only
C24_Witness ==
    /\ Ended({"rm"})
    /\ ~op.recursive
    /\ out = Raise("ValueError")
    /\ trace = <<"get_file_info">>
    /\ backend[<<"/", "d1", "/", "x">>] = "File"

\* C25 as stated: rm_file on a directory raises without a delete_file call
\* on the backend, and the directory is still there
C25_RmFileRejectsDirectory ==
    [][Reaches("rm_file") /\ TypeAt(Target) = "Directory"
          => /\ out'.kind = "err"
             /\ NotCalled({"delete_file"})
             /\ backend'[Target] = "Directory"]_vars

\* the step in which mkdir with its default arguments, or makedirs called
\* with exist_ok=False, acts on the backend
CreatesStrictly ==
    \/ Reaches("mkdir") /\ op.create_parents
    \/ Reaches("makedirs") /\ ~op.exist_ok

\* C26: mkdir with create_parents set, on a path with no file at or above
\* it, returns, and the path and everything above it are directories, the
\* rest of the backend as before; mkdir with create_parents=False on a path
\* whose immediate parent is absent raises and changes nothing
C26_MkdirCreatesParentsByDefault ==
    [][Reaches("mkdir") =>
          LET chain == {q \in BackendPaths : Above(q, Target)}
              orphan == \E q \in BackendPaths :
                            ChildOf(Target, q) /\ backend[q] = "NotFound"
          IN /\ op.create_parents /\ (\A q \in chain : backend[q] # "File")
                   => /\ out' = Returned
                      /\ backend' = [q \in BackendPaths |->
                                        IF q \in chain THEN "Directory"
                                        ELSE backend[q]]
             /\ ~op.create_parents /\ orphan
                   => /\ out'.kind = "err"
                      /\ UNCHANGED <<backend, data>>]_vars

\* mkdir with create_parents=False has raised on a path whose parent is
\* absent, after its create_dir call
C26_Witness ==
    /\ Ended({"mkdir"})
    /\ ~op.create_parents
    /\ op.path = LocationOfA(FALSE) \o <<"/", "d1", "/", "z">>
    /\ out.kind = "err"
    /\ trace = <<"create_dir">>
    /\ backend[<<"/", "d1">>] = "Directory"
    /\ backend[<<"/", "d1", "/", "d1">>] = "NotFound"

\* C27 as stated: mkdir with its default arguments and makedirs with
\* exist_ok=False raise FileExistsError on a path that is a directory, and
\* leave the backend as it is
C27_ExistingDirectoryRejected ==
    [][CreatesStrictly /\ TypeAt(Target) = "Directory"
          => /\ out' = Raise("FileExistsError")
             /\ UNCHANGED <<backend, data>>]_vars

\* ----------------------------------------------- claims on info and exists
\* C30: info raises FileNotFoundError exactly when the backend reports the
\* actual path as NotFound; exists raises what _get_fileset_context raised,
\* and otherwise returns False when the backend reports NotFound and True
\* when it reports a file or a directory, or raises the backend's error
C30_ExistsFalseOnlyWhenNotFound ==
    [][/\ Reaches("info")
          => (out' = Raise("FileNotFoundError") <=> TypeAt(Target) = "NotFound")
       /\ Resolved /\ op.name = "exists" /\ op'.stage = "ended"
          => IF result[Client].kind = "err"
             THEN out' = result[Client]
             ELSE out' \in {Value(TypeAt(Target) # "NotFound"),
                            Raise("OSError")}]_vars

\* exists has returned False for a path the backend does not hold
C30_Witness ==
    /\ Ended({"exists"})
    /\ out = Value(FALSE)
    /\ trace = <<"get_file_info">>

\* ------------------------------------------------- claims on the parser
\* _extract_identifier has been applied to op.path
Parsed == op # None /\ op.name = "parse"

\* a path without the gvfs://fileset in front of it
Unprefixed(path) ==
    IF StartsWith(path, GvfsPrefix)
    THEN SubSeq(path, Len(GvfsPrefix) + 1, Len(path))
    ELSE path

\* a path without the slash it ends in
Unslashed(path) ==
    IF path # <<>> /\ path[Len(path)] = "/"
    THEN SubSeq(path, 1, Len(path) - 1)
    ELSE path

\* relative paths that follow the third segment
SubPaths == {<<"/", "x">>, <<"/", "x", "/">>, <<"/", "x", "/", "y">>}

NonEmptySegments(path) ==
    LET segs == SplitSlash(Unprefixed(path))
    IN Cardinality({i \in DOMAIN segs : segs[i] # <<>>})

\* C29: _extract_identifier raises ValueError, and so returns no identifier,
\* for None, for the empty string, for a path with fewer than three
\* non-empty segments and for a path that starts with the scheme s3://
C29_InvalidPathsRejected ==
    /\ Parsed
    /\ \/ op.path = None
       \/ Len(op.path.value) = 0
       \/ NonEmptySegments(op.path.value) < 3
       \/ StartsWith(op.path.value, <<"s3:", "/", "/">>)
    => op.identifier = Raise("ValueError")

\* a path with the scheme s3:// and three segments after the bucket has been
\* refused
C29_Witness ==
    /\ Parsed
    /\ op.path = Str(ForeignPrefix \o <<"/", "c", "/", "A", "/", "c">>)
    /\ op.identifier = Raise("ValueError")

\* the virtual paths ls and cat_file are called with: the virtual location of
\* fileset A, a file and a directory below it, and a path that names no fileset
ReadPaths ==
    { LocationOfA(FALSE),
      LocationOfA(FALSE) \o <<"/", "x">>,
      LocationOfA(TRUE) \o <<"/", "d1">>,
      <<"/", "c", "/", "s">> }

\* the client calls ls(path, detail=detail); ls starts with
\* self._get_fileset_context(path)
InvokeLs(path, detail) ==
    /\ op = None
    /\ pc[Client] = "idle"
    /\ calls < MaxCalls
    /\ op' = [Operation("ls", path, <<>>, FALSE) EXCEPT !.detail = detail]
    /\ out' = None
    /\ trace' = <<>>
    /\ UNCHANGED <<cache, locks, pc, locals, result, history, age, backend, data>>

\* cat_file(path): the body builds a NotImplementedError, does not raise it,
\* and falls off its end: the call returns None, having looked at nothing
CatFile(path) ==
    /\ op = None
    /\ pc[Client] = "idle"
    /\ op' = [Operation("cat_file", path, <<>>, FALSE) EXCEPT !.stage = "ended"]
    /\ out' = Returned
    /\ trace' = <<>>
    /\ UNCHANGED <<cache, locks, pc, locals, result, history, age, backend, data>>

ReadNext ==
    \/ \E path \in ReadPaths, detail \in BOOLEAN : InvokeLs(path, detail)
    \/ \E path \in ReadPaths : CatFile(path)
    \/ ResolveStep
    \/ \E listing \in ListingAnswers : Ls(listing)
    \/ Finish

\* the client lists directories and reads files
ReadSpec == FacadeInit /\ [][ReadNext]_vars

\* ------------------------------------------------ claims on a single resolve
\* the values the message of an error names
Named(error, kind) ==
    {error.arguments[i].value :
        i \in {j \in DOMAIN error.arguments : error.arguments[j].kind = kind}}

\* C31 as stated: a resolve whose fetched fileset has a storage location of an
\* unsupported scheme ends at the fetch with an error that names the scheme
\* and the fileset identifier, without a backend handle, without a cache entry
\* and without a second fetch or construction
C31_UnsupportedSchemeNamed ==
    [][\A t \in Threads :
          (/\ pc[t] = "fetch" /\ pc'[t] = "done"
           /\ result'[t].kind = "err" /\ result'[t].type = "ValueError")
              => /\ Named(result'[t], "identifier") = {identifier[t]}
                 /\ Named(result'[t], "scheme") # {}
                 /\ ~built'[t] /\ fs'[t] = None
                 /\ cache' = cache /\ cache'[identifier[t]] = None
                 /\ ~fetched[t]]_vars

\* C32 as stated: a call that ends with the error of a collaborator ends with
\* the error the collaborator raised: the catalog's at the fetch, and the
\* backend's at the probe of the storage location (the path is the fileset's
\* virtual location, so that the probe is all that can fail there)
C32_CollaboratorErrorUnchanged ==
    [][\A t \in Threads :
          (pc'[t] = "done" /\ result'[t].kind = "err")
              => /\ (pc[t] = "fetch" /\ result'[t].type # "ValueError")
                        => result'[t] = Raise("CatalogError")
                 /\ (/\ pc[t] \in {"read_probe", "write_probe", "translate"}
                     /\ virtual_path[t] =
                           GetVirtualLocation(identifier[t],
                                              StartsWith(virtual_path[t], GvfsPrefix)))
                        => result'[t] = GetFileInfoError]_vars

\* C33: within one call the catalog is asked only by the step that leaves the
\* fetch, which no earlier step of the call has done, and the backend handle
\* is constructed only by the step that leaves the construction, likewise; an
\* error between fetch and insert ends the call, and an ended call does
\* nothing more until its result is taken
C33_OneFetchOneBuildPerCall ==
    [][\A t \in Threads :
          /\ (fetched'[t] /\ ~fetched[t]) => pc[t] = "fetch"
          /\ (built'[t] /\ ~built[t]) => pc[t] = "build"
          /\ (pc[t] = "fetch" /\ pc'[t] # "fetch") => (~fetched[t] /\ fetched'[t])
          /\ (pc[t] = "build" /\ pc'[t] # "build") => (~built[t] /\ built'[t])
          /\ (pc[t] \in LoadSection /\ result'[t].kind = "err") => pc'[t] = "done"
          /\ pc[t] = "done" => pc'[t] \in {"done", "idle"}]_vars

\* C33 witness: a call that fetched once and constructed once has ended with
\* the error of the construction
C33_Witness ==
    \E t \in Threads :
        /\ pc[t] = "done" /\ fetched[t] /\ built[t]
        /\ result[t] = Raise("BuildError")

C38_FailedTranslationInsertsNothing ==
    [][\A t \in Threads :
          /\ (pc[t] = "translate" /\ result'[t].kind = "err")
                => /\ fetched[t] /\ built[t] /\ ~inserted'[t]
                   /\ result'[t] = Raise("Exception")
                   /\ cache' = cache
                   /\ cache'[identifier[t]] = None
          /\ (pc[t] = "write_get" /\ pc'[t] # "write_get"
                   /\ cache[identifier[t]] = None)
                => (pc'[t] = "fetch" /\ ~fetched[t] /\ ~built[t])]_vars

\* C38 witness: after a load of an identifier has ended at the translation,
\* another call for the same identifier has fetched and is constructing again
C38_Witness ==
    \E t, u \in Threads :
        /\ SameIdentifier(t, u)
        /\ pc[t] = "done" /\ fetched[t] /\ built[t] /\ ~inserted[t]
        /\ result[t] = Raise("Exception")
        /\ pc[u] = "build" /\ fetched[u]

\* C39: a thread that waits for the writer lock, or holds it, does not hold
\* the reader lock; and a thread whose call has returned or raised, or that
\* is in no call, holds neither lock and waits for neither
C39_NoUpgradeNoLockKept ==
    \A t \in Threads :
        /\ pc[t] = "write_lock" => t \notin readers
        /\ t \in writers => t \notin readers
        /\ pc[t] \in {"idle", "done"}
              => /\ t \notin readers /\ t \notin writers
                 /\ \A k \in DOMAIN queue : queue[k] # t

\* C39 witness: a thread that missed under the reader lock has given the lock
\* back and waits for the writer lock, while another thread holds the reader
\* lock for its own lookup
C39_Witness ==
    \E t, u \in Threads :
        /\ t # u
        /\ pc[t] = "write_lock" /\ t \notin readers
        /\ u \in readers /\ pc[u] = "read_get"

C34_LsDetail ==
    (Ended({"ls"}) /\ out.kind = "list")
        => \A i \in DOMAIN out.entries :
              IF op.detail THEN out.entries[i].kind = "info"
              ELSE out.entries[i].kind = "str"

\* where the backend keeps what a virtual path of fileset A names
StoredAt(path) ==
    LET root == CHOOSE r \in MountRoots : TRUE
        location == LocationOfA(StartsWith(path, GvfsPrefix))
    IN RStripSlash(root \o SubSeq(path, Len(location) + 1, Len(path)))

\* C35 as stated: cat_file never returns without a result: for a file it
\* returns the content of the file, for a directory it raises
\* IsADirectoryError
C35_CatFileReturnsContent ==
    Ended({"cat_file"})
        => /\ out # Returned
           /\ PatternMatches(op.path)
                 => /\ TypeAt(StoredAt(op.path)) = "File"
                          => out = Value(data[StoredAt(op.path)])
                    /\ TypeAt(StoredAt(op.path)) = "Directory"
                          => out = Raise("IsADirectoryError")

\* C36 as stated: while an operation called with a path that names no fileset
\* runs, nobody holds or waits for the lock, no catalog or backend call is
\* made and the cache stays as it is; and the operation ends by raising the
\* parser's error
C36_MalformedPathFailsFirst ==
    [][(op' # None /\ ExtractIdentifier(op'.path).kind = "err")
          => /\ readers' = {} /\ writers' = {} /\ queue' = <<>>
             /\ ~fetched'[Client] /\ ~built'[Client]
             /\ trace' = <<>>
             /\ cache' = cache
             /\ op'.stage = "ended" => out' = Raise("ValueError")]_vars

====
